---- MODULE Spec2Model ----
(***************************************************************************)
(* dice_core: the notation parser (parser.rs), the result type and its     *)
(* Display (model.rs) and the public entry points roll / roll_with_seed    *)
(* (lib.rs), as a state machine of calls made by a caller.                 *)
(*                                                                         *)
(* Strings are sequences of one-character strings, so that parsing and     *)
(* formatting are computed character by character as the code does.        *)
(* Integers are i32: every arithmetic step is guarded the way the checked  *)
(* operations of the code are, and never leaves [I32Min, I32Max].          *)
(***************************************************************************)
EXTENDS Integers, Sequences, FiniteSets, TLC

VARIABLES pc, call, outcome, outcome2

vars == <<pc, call, outcome, outcome2>>

(***************************************************************************)
(* Bounds of the explored inputs.                                          *)
(***************************************************************************)
\* longest generated run of one repeated digit ("2", "22", ...)
MaxDigits == 2
\* longest dice_rolls vector handed to Display
MaxRolls == 3

(***************************************************************************)
(* i32                                                                     *)
(***************************************************************************)
I32Max == 2147483647
I32Min == -I32Max - 1

SeedLen == 32

DigitChars == <<"0", "1", "2", "3", "4", "5", "6", "7", "8", "9">>

\* char::is_ascii_digit, as nom's digit0 / digit1 test each character
is_dec_digit(c) == \E i \in 1..10 : DigitChars[i] = c

\* char::to_digit(10) of a decimal digit
to_digit(c) == (CHOOSE i \in 1..10 : DigitChars[i] = c) - 1

(***************************************************************************)
(* <i32 as FromStr>::from_str: an optional sign, then one or more digits,  *)
(* accumulated with checked_mul / checked_add (checked_sub when negative). *)
(***************************************************************************)
RECURSIVE accumulate(_, _, _, _)
accumulate(digits, i, acc, positive) ==
    IF i > Len(digits) THEN [ok |-> TRUE, val |-> acc]
    ELSE IF ~is_dec_digit(digits[i]) THEN [ok |-> FALSE, kind |-> "InvalidDigit"]
    ELSE LET d == to_digit(digits[i]) IN
         IF positive
         THEN IF acc > I32Max \div 10 \/ acc * 10 > I32Max - d
              THEN [ok |-> FALSE, kind |-> "PosOverflow"]
              ELSE accumulate(digits, i + 1, acc * 10 + d, positive)
         ELSE IF acc < -(I32Max \div 10) \/ acc * 10 < I32Min + d
              THEN [ok |-> FALSE, kind |-> "NegOverflow"]
              ELSE accumulate(digits, i + 1, acc * 10 - d, positive)

str_to_i32(str) ==
    IF Len(str) = 0 THEN [ok |-> FALSE, kind |-> "Empty"]
    ELSE IF str[1] \in {"+", "-"} /\ Len(str) = 1
         THEN [ok |-> FALSE, kind |-> "InvalidDigit"]
    ELSE IF str[1] = "+" THEN accumulate(Tail(str), 1, 0, TRUE)
    ELSE IF str[1] = "-" THEN accumulate(Tail(str), 1, 0, FALSE)
    ELSE accumulate(str, 1, 0, TRUE)

str_to_i32_or_one(s) ==
    IF Len(s) = 0 THEN [ok |-> TRUE, val |-> 1] ELSE str_to_i32(s)

(***************************************************************************)
(* The nom combinators the parser is built from (complete versions).  A    *)
(* parser result is [ok |-> TRUE, rest, out] or the recoverable error      *)
(* [ok |-> FALSE, code, input] (nom::Err::Error(Error {input, code})).     *)
(***************************************************************************)
RECURSIVE digit_prefix_len(_, _)
digit_prefix_len(input, n) ==
    IF n < Len(input) /\ is_dec_digit(input[n + 1])
    THEN digit_prefix_len(input, n + 1)
    ELSE n

drop(input, n) == SubSeq(input, n + 1, Len(input))
take(input, n) == SubSeq(input, 1, n)

digit0(input) ==
    LET n == digit_prefix_len(input, 0)
    IN  [ok |-> TRUE, rest |-> drop(input, n), out |-> take(input, n)]

digit1(input) ==
    LET n == digit_prefix_len(input, 0)
    IN  IF n = 0 THEN [ok |-> FALSE, code |-> "Digit", input |-> input]
        ELSE [ok |-> TRUE, rest |-> drop(input, n), out |-> take(input, n)]

tag(t, input) ==
    IF Len(input) >= Len(t) /\ take(input, Len(t)) = t
    THEN [ok |-> TRUE, rest |-> drop(input, Len(t)), out |-> t]
    ELSE [ok |-> FALSE, code |-> "Tag", input |-> input]

one_of(chars, input) ==
    IF Len(input) >= 1 /\ input[1] \in chars
    THEN [ok |-> TRUE, rest |-> Tail(input), out |-> input[1]]
    ELSE [ok |-> FALSE, code |-> "OneOf", input |-> input]

\* map_res(p, f): p's error as it is; f's error becomes MapRes at p's input
map_res(r, converted, input) ==
    IF ~r.ok THEN r
    ELSE IF ~converted.ok THEN [ok |-> FALSE, code |-> "MapRes", input |-> input]
    ELSE [ok |-> TRUE, rest |-> r.rest, out |-> converted.val]

(***************************************************************************)
(* parser.rs                                                               *)
(***************************************************************************)
parse_quantity(input) ==
    LET r == digit0(input)
    IN  map_res(r, str_to_i32_or_one(r.out), input)

parse_sides(input) ==
    LET r == digit1(input)
    IN  map_res(r, IF r.ok THEN str_to_i32(r.out) ELSE r, input)

\* alt((tag("d"), tag("D"))): the first that succeeds, else the last error
parse_d(input) ==
    LET a == tag(<<"d">>, input)
    IN  IF a.ok THEN a ELSE tag(<<"D">>, input)

\* recognize(pair(one_of("+-"), digit1)): the text the pair consumed
sign_and_digits(input) ==
    LET s == one_of({"+", "-"}, input)
    IN  IF ~s.ok THEN s
        ELSE LET d == digit1(s.rest)
             IN  IF ~d.ok THEN d
                 ELSE [ok |-> TRUE, rest |-> d.rest,
                       out |-> take(input, Len(input) - Len(d.rest))]

\* parse_modifier with the sign dropped before the conversion
parse_modifier_unsigned(input) ==
    LET r == sign_and_digits(input)
    IN  map_res(r, IF r.ok THEN str_to_i32(Tail(r.out)) ELSE r, input)

parse_modifier(input) ==
    LET r == sign_and_digits(input)
    IN  map_res(r, IF r.ok THEN str_to_i32(r.out) ELSE r, input)

\* the four parsers in sequence, the first error returned by `?`
dice_result(expression) ==
    LET q == parse_quantity(expression) IN
    IF ~q.ok THEN [kind |-> "Err", code |-> q.code, input |-> q.input] ELSE
    LET d == parse_d(q.rest) IN
    IF ~d.ok THEN [kind |-> "Err", code |-> d.code, input |-> d.input] ELSE
    LET s == parse_sides(d.rest) IN
    IF ~s.ok THEN [kind |-> "Err", code |-> s.code, input |-> s.input] ELSE
    LET m == parse_modifier(s.rest) IN
    IF ~m.ok THEN [kind |-> "Err", code |-> m.code, input |-> m.input] ELSE
    [kind |-> "Ok", remaining |-> m.rest,
     request |-> [quantity |-> q.out, sides |-> s.out, modifier |-> m.out]]

(***************************************************************************)
(* lib.rs                                                                  *)
(***************************************************************************)
\* Err(DiceError::InvalidFormat("Not implemented".to_string()))
roll(expression) ==
    [kind |-> "Err", error |-> [kind |-> "InvalidFormat", detail |-> "Not implemented"]]

\* todo!(): every call panics
roll_with_seed(expression, seed) ==
    [kind |-> "Panic", message |-> "not yet implemented"]

(***************************************************************************)
(* model.rs                                                                *)
(***************************************************************************)
\* the decimal digits of |n|, computed without leaving i32
RECURSIVE magnitude_digits(_)
magnitude_digits(n) ==
    IF n >= 0
    THEN IF n < 10 THEN <<DigitChars[n + 1]>>
         ELSE magnitude_digits(n \div 10) \o <<DigitChars[(n % 10) + 1]>>
    ELSE LET last == (10 - (n % 10)) % 10
             rest == (n + last) \div 10
         IN  IF rest = 0 THEN <<DigitChars[last + 1]>>
             ELSE magnitude_digits(rest) \o <<DigitChars[last + 1]>>

\* <i32 as Display>::fmt, the "{}" of an i32
i32_to_string(n) ==
    IF n < 0 THEN <<"-">> \o magnitude_digits(n) ELSE magnitude_digits(n)

\* <Vec<i32> as Debug>::fmt, the "{:?}" of dice_rolls
RECURSIVE debug_elements(_, _)
debug_elements(v, i) ==
    IF i > Len(v) THEN <<>>
    ELSE (IF i > 1 THEN <<",", " ">> ELSE <<>>)
         \o i32_to_string(v[i]) \o debug_elements(v, i + 1)

debug_vec(v) == <<"[">> \o debug_elements(v, 1) \o <<"]">>

\* -self.modifier: with overflow checks (the dev profile) negating i32::MIN
\* panics, without them (the release profile) it wraps to i32::MIN
neg(x, build) ==
    IF x # I32Min THEN [ok |-> TRUE, val |-> -x]
    ELSE IF build = "debug" THEN [ok |-> FALSE, val |-> 0]
    ELSE [ok |-> TRUE, val |-> I32Min]

fmt(self, build) ==
    IF self.modifier = 0
    THEN [kind |-> "Ok",
          text |-> debug_vec(self.dice_rolls) \o <<" ", "=", " ">>
                   \o i32_to_string(self.total)]
    ELSE IF self.modifier > 0
    THEN [kind |-> "Ok",
          text |-> debug_vec(self.dice_rolls) \o <<" ", "+", " ">>
                   \o i32_to_string(self.modifier) \o <<" ", "=", " ">>
                   \o i32_to_string(self.total)]
    ELSE LET m == neg(self.modifier, build) IN
         IF ~m.ok
         THEN [kind |-> "Panic", message |-> "attempt to negate with overflow"]
         ELSE [kind |-> "Ok",
               text |-> debug_vec(self.dice_rolls) \o <<" ", "-", " ">>
                        \o i32_to_string(m.val) \o <<" ", "=", " ">>
                        \o i32_to_string(self.total)]

(***************************************************************************)
(* The inputs a caller passes.  An expression is put together from a       *)
(* shape: leading whitespace, quantity digits, die marker, sides digits,   *)
(* whitespace before the modifier, modifier text, trailing text.           *)
(***************************************************************************)
Run(c, n) == [i \in 1..n |-> c]

I32MaxText == <<"2", "1", "4", "7", "4", "8", "3", "6", "4", "7">>
I32MaxPlus1Text == <<"2", "1", "4", "7", "4", "8", "3", "6", "4", "8">>
I32MaxPlus2Text == <<"2", "1", "4", "7", "4", "8", "3", "6", "4", "9">>

QuantityTexts ==
    {Run("2", n) : n \in 0..MaxDigits}
    \cup {<<"0">>, <<"0", "2">>, <<"1", "0", "0", "0">>, <<"1", "0", "0", "1">>,
          I32MaxText, I32MaxPlus1Text}

MarkerTexts == {<<"d">>, <<"D">>, <<>>}

SidesTexts ==
    {Run("6", n) : n \in 0..MaxDigits}
    \cup {<<"0">>, I32MaxText, I32MaxPlus1Text}

ModifierTexts ==
    {<<>>}
    \cup {<<s>> \o Run("5", n) : s \in {"+", "-"}, n \in 0..MaxDigits}
    \cup {<<"+">> \o I32MaxText, <<"+">> \o I32MaxPlus1Text,
          <<"-">> \o I32MaxPlus1Text, <<"-">> \o I32MaxPlus2Text}

LeadTexts == {<<>>, <<" ">>}
GapTexts == {<<>>, <<" ">>}
TrailTexts == {<<>>, <<" ">>, <<"x", "y", "z">>}

Shapes ==
    [lead : LeadTexts, quantity : QuantityTexts, marker : MarkerTexts,
     sides : SidesTexts, gap : GapTexts, modifier : ModifierTexts,
     trail : TrailTexts]

ExprOf(sh) ==
    sh.lead \o sh.quantity \o sh.marker \o sh.sides \o sh.gap \o sh.modifier
    \o sh.trail

\* [u8; 32]
Seeds == {[i \in 1..SeedLen |-> b] : b \in {0, 255}}

RollValues == {1, 2, 3, 4, 7, 18}
RollVectors == UNION {[1..n -> RollValues] : n \in 0..MaxRolls}
ModifierValues == {0, 5, -2, I32Max, I32Min}
TotalValues == {9, 18, -11, I32Max}

\* RollResult has public fields: a caller builds any value of the type
RollResults ==
    [total : TotalValues, dice_rolls : RollVectors, modifier : ModifierValues]

\* overflow-checks on (dev profile) or off (release profile)
Builds == {"debug", "release"}

(***************************************************************************)
(* The state machine: a caller makes one call at a time and takes the      *)
(* result; the library keeps no state between calls.                       *)
(***************************************************************************)
NoCall == [op |-> "none"]
NoOutcome == [kind |-> "None"]

Init ==
    /\ pc = "idle"
    /\ call = NoCall
    /\ outcome = NoOutcome
    /\ outcome2 = NoOutcome

CallDiceResult ==
    /\ pc = "idle"
    /\ \E sh \in Shapes :
        /\ call' = [op |-> "dice_result", shape |-> sh, expression |-> ExprOf(sh)]
        /\ outcome' = dice_result(ExprOf(sh))
    /\ pc' = "returned"
    /\ UNCHANGED outcome2

CallRoll ==
    /\ pc = "idle"
    /\ \E sh \in Shapes :
        /\ call' = [op |-> "roll", shape |-> sh, expression |-> ExprOf(sh)]
        /\ outcome' = roll(ExprOf(sh))
    /\ pc' = "returned"
    /\ UNCHANGED outcome2

CallRollWithSeed ==
    /\ pc = "idle"
    /\ \E sh \in Shapes, seed \in Seeds :
        /\ call' = [op |-> "roll_with_seed", shape |-> sh,
                    expression |-> ExprOf(sh), seed |-> seed]
        /\ outcome' = roll_with_seed(ExprOf(sh), seed)
    /\ pc' = "returned"
    /\ UNCHANGED outcome2

\* the same call made a second time, with the same expression and seed
CallRollWithSeedAgain ==
    /\ pc = "returned"
    /\ call.op = "roll_with_seed"
    /\ outcome2' = roll_with_seed(call.expression, call.seed)
    /\ pc' = "repeated"
    /\ UNCHANGED <<call, outcome>>

CallFmt ==
    /\ pc = "idle"
    /\ \E self \in RollResults, build \in Builds :
        /\ call' = [op |-> "fmt", self |-> self, build |-> build]
        /\ outcome' = fmt(self, build)
    /\ pc' = "returned"
    /\ UNCHANGED outcome2

\* the caller has taken the result; nothing is retained
Return ==
    /\ pc \in {"returned", "repeated"}
    /\ pc' = "idle"
    /\ call' = NoCall
    /\ outcome' = NoOutcome
    /\ outcome2' = NoOutcome

Next ==
    \/ CallDiceResult
    \/ CallRoll
    \/ CallRollWithSeed
    \/ CallRollWithSeedAgain
    \/ CallFmt
    \/ Return

Spec == Init /\ [][Next]_vars

(***************************************************************************)
(* What the notation means, stated apart from the parser: used only by the *)
(* properties below.                                                       *)
(***************************************************************************)
IsDigitRun(t) == Len(t) >= 1 /\ \A i \in 1..Len(t) : is_dec_digit(t[i])

RECURSIVE StripZeros(_)
StripZeros(t) ==
    IF Len(t) >= 2 /\ t[1] = "0" THEN StripZeros(Tail(t)) ELSE t

\* t <= u for digit runs of the same length
RECURSIVE NumeralLeq(_, _)
NumeralLeq(t, u) ==
    IF Len(t) = 0 THEN TRUE
    ELSE IF to_digit(t[1]) < to_digit(u[1]) THEN TRUE
    ELSE IF to_digit(t[1]) > to_digit(u[1]) THEN FALSE
    ELSE NumeralLeq(Tail(t), Tail(u))

\* a digit run whose decimal value is at most limit (a digit run without
\* leading zeros)
ValueAtMost(t, limit) ==
    LET z == StripZeros(t)
    IN  \/ Len(z) < Len(limit)
        \/ Len(z) = Len(limit) /\ NumeralLeq(z, limit)

\* a digit run an i32 can hold
Representable(t) == IsDigitRun(t) /\ ValueAtMost(t, I32MaxText)

RECURSIVE DecimalValue(_)
DecimalValue(t) ==
    IF Len(t) = 0 THEN 0
    ELSE DecimalValue(SubSeq(t, 1, Len(t) - 1)) * 10 + to_digit(t[Len(t)])

\* a sign followed by a representable digit run
IsSignedModifier(t) ==
    Len(t) >= 2 /\ t[1] \in {"+", "-"} /\ Representable(Tail(t))

SignedValue(t) ==
    IF t[1] = "-" THEN -DecimalValue(Tail(t)) ELSE DecimalValue(Tail(t))

QuantityOf(sh) == IF sh.quantity = <<>> THEN 1 ELSE DecimalValue(sh.quantity)
ModifierOf(sh) == IF sh.modifier = <<>> THEN 0 ELSE SignedValue(sh.modifier)

NoWhitespace(sh) == sh.lead = <<>> /\ sh.gap = <<>> /\ sh.trail = <<>>

\* "<q>d<s>+<m>" or "<q>d<s>-<m>"
SignedForm(sh) ==
    /\ NoWhitespace(sh)
    /\ sh.marker = <<"d">>
    /\ Representable(sh.quantity)
    /\ Representable(sh.sides)
    /\ IsSignedModifier(sh.modifier)

\* "d<s>" or "<q>d<s>"
NoModifierForm(sh) ==
    /\ NoWhitespace(sh)
    /\ sh.marker = <<"d">>
    /\ sh.quantity = <<>> \/ Representable(sh.quantity)
    /\ Representable(sh.sides)
    /\ sh.modifier = <<>>

\* a valid signed form with spaces before it, before the sign or after it
WhitespaceForm(sh) ==
    /\ sh.lead = <<" ">> \/ sh.gap = <<" ">> \/ sh.trail = <<" ">>
    /\ sh.trail \in {<<>>, <<" ">>}
    /\ sh.marker = <<"d">>
    /\ Representable(sh.quantity)
    /\ DecimalValue(sh.quantity) >= 1
    /\ DecimalValue(sh.quantity) <= 1000
    /\ Representable(sh.sides)
    /\ DecimalValue(sh.sides) >= 1
    /\ IsSignedModifier(sh.modifier)

WithoutWhitespace(sh) ==
    [sh EXCEPT !.lead = <<>>, !.gap = <<>>, !.trail = <<>>]

\* the grammar of the notation with quantity in [1, 1000] and sides >= 1
ValidForm(sh) ==
    /\ sh.trail \in {<<>>, <<" ">>}
    /\ sh.marker \in {<<"d">>, <<"D">>}
    /\ sh.quantity = <<>> \/ Representable(sh.quantity)
    /\ QuantityOf(sh) >= 1
    /\ QuantityOf(sh) <= 1000
    /\ Representable(sh.sides)
    /\ DecimalValue(sh.sides) >= 1
    /\ sh.modifier = <<>> \/ IsSignedModifier(sh.modifier)

Returned(op) == pc = "returned" /\ call.op = op

(***************************************************************************)
(* Properties                                                              *)
(***************************************************************************)

\* C1: for every expression that matches the grammar with quantity in
\* [1, 1000] and sides >= 1, roll returns Ok(RollResult) whose dice_rolls has
\* exactly `quantity` elements, each in [1, sides].
C1_RollReturnsQuantityRollsInRange ==
    (Returned("roll") /\ ValidForm(call.shape)) =>
        /\ outcome.kind = "Ok"
        /\ Len(outcome.value.dice_rolls) = QuantityOf(call.shape)
        /\ \A i \in 1..Len(outcome.value.dice_rolls) :
              /\ outcome.value.dice_rolls[i] >= 1
              /\ outcome.value.dice_rolls[i] <= DecimalValue(call.shape.sides)

\* C2: roll and roll_with_seed never panic, and "2d" and "6" yield
\* InvalidFormat, "0d6" InvalidQuantity, "2d0" InvalidDieSize and "1001d6"
\* QuantityLimitExceeded.
ErrorKindIs(o, kind) == o.kind = "Err" /\ o.error.kind = kind

C2_NoPanicAndDocumentedErrors ==
    (pc \in {"returned", "repeated"} /\ call.op \in {"roll", "roll_with_seed"}) =>
        /\ outcome.kind \in {"Ok", "Err"}
        /\ call.expression \in {<<"2", "d">>, <<"6">>}
              => ErrorKindIs(outcome, "InvalidFormat")
        /\ call.expression = <<"0", "d", "6">>
              => ErrorKindIs(outcome, "InvalidQuantity")
        /\ call.expression = <<"2", "d", "0">>
              => ErrorKindIs(outcome, "InvalidDieSize")
        /\ call.expression = <<"1", "0", "0", "1", "d", "6">>
              => ErrorKindIs(outcome, "QuantityLimitExceeded")

\* C3: two calls of roll_with_seed with the same valid expression and the
\* same seed return identical results: the same dice_rolls in the same order
\* and the same total.
C3_SeededRollRepeats ==
    (pc = "repeated" /\ ValidForm(call.shape)) =>
        /\ outcome.kind = "Ok"
        /\ outcome2.kind = "Ok"
        /\ outcome2.value.dice_rolls = outcome.value.dice_rolls
        /\ outcome2.value.total = outcome.value.total

\* C4: every RollResult returned by roll or roll_with_seed has
\* total = sum(dice_rolls) + modifier.  roll returns Err on every input and
\* roll_with_seed panics on every input, so no RollResult is ever returned:
\* the property has no instance in this code, which neither exhibits it nor
\* breaks it.

\* C5: quantity and modifier are optional: dice_result on "d<sides>" gives
\* quantity 1 and modifier 0, on "<quantity>d<sides>" that quantity and
\* modifier 0, both with those sides and an empty remainder.
C5_QuantityAndModifierOptional ==
    (Returned("dice_result") /\ NoModifierForm(call.shape)) =>
        /\ outcome.kind = "Ok"
        /\ outcome.remaining = <<>>
        /\ outcome.request =
              [quantity |-> QuantityOf(call.shape),
               sides |-> DecimalValue(call.shape.sides),
               modifier |-> 0]

\* C6: dice_result on a valid expression with spaces before it, before the
\* modifier sign or after it succeeds with the same quantity, sides and
\* modifier as on the expression without the spaces, and an empty remainder.
C6_WhitespaceTolerated ==
    (Returned("dice_result") /\ WhitespaceForm(call.shape)) =>
        /\ outcome.kind = "Ok"
        /\ outcome.remaining = <<>>
        /\ outcome.request =
              [quantity |-> QuantityOf(call.shape),
               sides |-> DecimalValue(call.shape.sides),
               modifier |-> ModifierOf(call.shape)]
        /\ outcome.request =
              dice_result(ExprOf(WithoutWhitespace(call.shape))).request

\* C7: on "<q>d<s>+<m>" and "<q>d<s>-<m>" with representable digit runs,
\* dice_result succeeds with quantity q, sides s, modifier +m or -m and an
\* empty remainder.
C7_SignedModifierParsed ==
    (Returned("dice_result") /\ SignedForm(call.shape)) =>
        /\ outcome.kind = "Ok"
        /\ outcome.remaining = <<>>
        /\ outcome.request =
              [quantity |-> DecimalValue(call.shape.quantity),
               sides |-> DecimalValue(call.shape.sides),
               modifier |-> SignedValue(call.shape.modifier)]

\* a negative modifier has been parsed from a signed form
C7_Witness ==
    /\ Returned("dice_result")
    /\ SignedForm(call.shape)
    /\ call.expression = <<"2", "2", "d", "6", "-", "5", "5">>
    /\ outcome.kind = "Ok"
    /\ outcome.request.modifier = -55

\* C8: parsing fails whenever the die marker is missing, the sides digits
\* are missing, or text follows the dice expression; trailing content is
\* never accepted as a successful parse.  (The claim also names the error,
\* InvalidFormat; that the parse fails at all is what is stated here.)
MarkerMissing(sh) == sh.marker = <<>>
SidesMissing(sh) == sh.marker # <<>> /\ sh.sides = <<>>
TrailingContent(sh) == sh.trail = <<"x", "y", "z">>

C8_MalformedInputRejected ==
    (/\ Returned("dice_result")
     /\ \/ MarkerMissing(call.shape)
        \/ SidesMissing(call.shape)
        \/ TrailingContent(call.shape)) =>
        outcome.kind = "Err"

\* C9: Display renders dice_rolls as a bracketed list separated by ", ",
\* then " + {modifier} = {total}" when modifier > 0, " - {|modifier|} =
\* {total}" when modifier < 0 and " = {total}" when modifier = 0.
RECURSIVE AbsNumeral(_)
AbsNumeral(n) ==
    LET unit == IF n >= 0 THEN n % 10 ELSE (10 - (n % 10)) % 10
        rest == IF n >= 0 THEN n \div 10 ELSE (n + unit) \div 10
    IN  (IF rest = 0 THEN <<>> ELSE AbsNumeral(rest)) \o <<DigitChars[unit + 1]>>

Numeral(n) == (IF n < 0 THEN <<"-">> ELSE <<>>) \o AbsNumeral(n)

RECURSIVE CommaSeparated(_)
CommaSeparated(rolls) ==
    IF Len(rolls) = 0 THEN <<>>
    ELSE IF Len(rolls) = 1 THEN Numeral(rolls[1])
    ELSE Numeral(rolls[1]) \o <<",", " ">> \o CommaSeparated(Tail(rolls))

Rendering(r) ==
    <<"[">> \o CommaSeparated(r.dice_rolls) \o <<"]">>
    \o (IF r.modifier > 0 THEN <<" ", "+", " ">> \o AbsNumeral(r.modifier)
        ELSE IF r.modifier < 0 THEN <<" ", "-", " ">> \o AbsNumeral(r.modifier)
        ELSE <<>>)
    \o <<" ", "=", " ">> \o Numeral(r.total)

C9_DisplayRendering ==
    Returned("fmt") =>
        /\ outcome.kind = "Ok"
        /\ outcome.text = Rendering(call.self)
        /\ call.self = [total |-> 9, dice_rolls |-> <<4, 2>>, modifier |-> 5]
              => outcome.text = <<"[", "4", ",", " ", "2", "]", " ", "+", " ",
                                  "5", " ", "=", " ", "9">>
        /\ call.self = [total |-> 9, dice_rolls |-> <<1, 7, 3>>, modifier |-> -2]
              => outcome.text = <<"[", "1", ",", " ", "7", ",", " ", "3", "]",
                                  " ", "-", " ", "2", " ", "=", " ", "9">>
        /\ call.self = [total |-> 18, dice_rolls |-> <<18>>, modifier |-> 0]
              => outcome.text = <<"[", "1", "8", "]", " ", "=", " ", "1", "8">>

\* C10: for every negative modifier, i32::MIN included, Display computes
\* -modifier without overflowing i32, so the magnitude it renders is the
\* absolute value of the modifier.
C10_NegationDoesNotOverflow ==
    (Returned("fmt") /\ call.self.modifier < 0) =>
        /\ outcome.kind # "Panic"
        /\ LET m == neg(call.self.modifier, call.build)
           IN  m.ok /\ m.val > 0 /\ m.val + call.self.modifier = 0

====
